---- MODULE Spec2Model ----
(***************************************************************************)
(* A model of aiohere.AioHere (src/aiohere/aiohere.py): the lazily created *)
(* aiohttp session and its ownership flag, the request pipeline with its   *)
(* suspension points, weather_for_coordinates, the error mapper, close()   *)
(* and the async context manager.                                          *)
(*                                                                         *)
(* Calls run as asyncio tasks on one event loop: the code between two      *)
(* awaits is one atomic step, and other tasks may run at every await.      *)
(***************************************************************************)
EXTENDS Integers, FiniteSets, Sequences, TLC

VARIABLES
    session,            \* self._session: NoSession, Supplied or the id of a created session
    close_session,      \* self._close_session
    created,            \* how many times aiohttp.ClientSession() was constructed by the client
    closed,             \* the sessions whose close() has taken effect
    closeCalls,         \* how many times AioHere.close() ran (directly or from __aexit__)
    sessionCloseCalls,  \* how many times close() invoked self._session.close()
    scope,              \* the async-with block: "none", "inside", "exited", "raised"
    task,               \* per task: the call it runs and where that call is suspended
    json_data,          \* argument of a direct _get_error_from_response application
    error,              \* its result
    lookup,             \* argument of a direct _product_node application
    root_key            \* its result

vars == <<session, close_session, created, closed, closeCalls, sessionCloseCalls,
          scope, task, json_data, error, lookup, root_key>>

----------------------------------------------------------------------------
(* Bounds *)

\* calls that may be in flight at once, and close() calls made directly
MaxTasks == 2
MaxCloses == 2

Tasks == 1..MaxTasks

----------------------------------------------------------------------------
(* Values *)

\* session=None (the default of the constructor's session parameter)
NoSession == 0
\* a session object passed to the constructor
Supplied == -1

\* Python's None as a JSON / message value
Null == "None"

\* enum.py: the seven WeatherProductType members
WeatherProductType ==
    {"observation", "forecast_7days", "forecast_7days_simple", "forecast_hourly",
     "forecast_astronomy", "alerts", "nws_alerts"}

\* The four exception classes imported from .exceptions
LibraryErrors ==
    {"HereError", "HereTimeOutError", "HereUnauthorizedError", "HereInvalidRequestError"}

\* A decoded JSON object is a function from its keys to its values.
EmptyMap == [k \in {} |-> Null]

\* dict.get(key): the value, None when the key is missing
Get(m, k) == IF k \in DOMAIN m THEN m[k] ELSE Null

\* A response body as received: form says what the bytes are,
\*   "object"  UTF-8 text of a JSON object whose members are fields
\*   "array"   UTF-8 text of a JSON value that is not an object
\*   "text"    UTF-8 text that is not JSON
\*   "binary"  bytes that are not UTF-8
Body(form, fields) == [form |-> form, fields |-> fields]
NoBody == Body("none", EmptyMap)

\* A Python value handed to the caller or to the mapper:
\*   "None", "dict" (fields), "list", and "str" for decoded text
Value(form, fields) == [form |-> form, fields |-> fields]
NoValue == Value("none", EmptyMap)
PyNone == Value("None", EmptyMap)

\* How a call (or a helper) ends.  text is the decoded body a HereError(status, {...}) carries.
Outcome(kind, exc, message, status, text, value) ==
    [kind |-> kind, exc |-> exc, message |-> message, status |-> status,
     text |-> text, value |-> value]
NoOutcome == Outcome("none", "none", Null, 0, NoBody, NoValue)
Return(value) == Outcome("return", "none", Null, 0, NoBody, value)
\* raise <exc>(message)
Raise(exc, message) == Outcome("raise", exc, message, 0, NoBody, NoValue)
\* raise HereError(status, {"message": text})
RaiseStatus(status, text) == Outcome("raise", "HereError", Null, status, text, NoValue)

----------------------------------------------------------------------------
(* The error mapper and the product lookup *)

\* The members of a dict the code looks up.  The dict {"message": text} that
\* request() builds has the one key "message", which no lookup of the code
\* asks for, so every lookup in it misses.
IsDict(data) == data.form \in {"dict", "message"}
Members(data) == IF data.form = "dict" THEN data.fields ELSE EmptyMap

\* What a helper returning an exception object hands back (exc, message)
ErrorObject(exc, message) == Outcome("return", exc, message, 0, NoBody, NoValue)

\* HereUnauthorizedError(json_data["error_description"]): the subscript of a
\* missing key raises KeyError
Subscript(m, k) ==
    IF k \in DOMAIN m THEN ErrorObject("HereUnauthorizedError", m[k])
    ELSE Raise("KeyError", k)

\* AioHere._get_error_from_response.  data is a decoded JSON value; the result
\* is what the function does: it returns an exception object or it raises
\* (a JSON array has no .get).
_get_error_from_response(data) ==
    IF ~IsDict(data) THEN Raise("AttributeError", Null)
    ELSE IF "error" \in DOMAIN Members(data) /\ Members(data)["error"] = "Unauthorized"
         THEN Subscript(Members(data), "error_description")
    ELSE LET error_type == Get(Members(data), "Type")
             error_message == Get(Members(data), "Message")
         IN IF error_type = "Invalid Request"
            THEN ErrorObject("HereInvalidRequestError", error_message)
            ELSE ErrorObject("HereError", error_message)

\* raise self._get_error_from_response(...): raise the returned object, or
\* propagate what the mapper itself raised
RaiseMapped(data) ==
    LET e == _get_error_from_response(data)
    IN IF e.kind = "return" THEN Raise(e.exc, e.message) ELSE e

\* the mutant: the simple 7-day forecast is looked up under the 7-day key
_product_node_merged(product) ==
    IF product = "observation" THEN "observations"
    ELSE IF product = "forecast_7days" THEN "forecasts"
    ELSE IF product = "forecast_7days_simple" THEN "forecasts"
    ELSE IF product = "forecast_hourly" THEN "hourlyForecasts"
    ELSE IF product = "forecast_astronomy" THEN "astronomy"
    ELSE IF product = "alerts" THEN "alerts"
    ELSE "nwsAlerts"

\* AioHere._product_node
_product_node(product) ==
    IF product = "observation" THEN "observations"
    ELSE IF product = "forecast_7days" THEN "forecasts"
    ELSE IF product = "forecast_7days_simple" THEN "dailyForecasts"
    ELSE IF product = "forecast_hourly" THEN "hourlyForecasts"
    ELSE IF product = "forecast_astronomy" THEN "astronomy"
    ELSE IF product = "alerts" THEN "alerts"
    ELSE "nwsAlerts"

----------------------------------------------------------------------------
(* Decoding a body *)

\* contents.decode("utf8") / response.text(): the text of the bytes
Utf8Decodable(body) == body.form # "binary"

\* json.loads of the body text: a dict, another JSON value, or a decode error
JsonDecodable(body) == body.form \in {"object", "array"}
JsonLoads(body) ==
    IF body.form = "object" THEN Value("dict", body.fields) ELSE Value("list", EmptyMap)

\* {"message": text}: the dict request() returns for a body that is not JSON.
\* Its single member is the decoded text, kept apart from JSON strings.
MessageDict(body) == Value("message", body.fields)

\* response.headers.get("Content-Type", ""): a header value is the sequence of
\* its ';'-separated parts, the empty sequence when the header is missing.
JsonType == "application/json"
\* content_type == "application/json"
IsExactlyJson(content_type) == content_type = <<JsonType>>
\* "application/json" in content_type
ContainsJson(content_type) == \E i \in DOMAIN content_type : content_type[i] = JsonType
\* response.status // 100 in [4, 5]
IsErrorStatus(status) == (status \div 100) \in {4, 5}

----------------------------------------------------------------------------
(* Inputs *)

Ops == {"request", "weather_for_coordinates"}

\* Builds a JSON object from a set of <<key, value>> members with distinct keys
FromPairs(S) == [k \in {p[1] : p \in S} |-> (CHOOSE p \in S : p[1] = k)[2]]
Member(k, values) == {{}} \cup {{<<k, v>>} : v \in values}

\* JSON objects over the members the code looks at: the two error shapes of the
\* API and a product root key, each absent or present with one of the values
PayloadsOf(descriptions, messages, roots) ==
    {FromPairs(e \cup d \cup t \cup m \cup r) :
        e \in Member("error", {"Unauthorized", "Forbidden"}),
        d \in Member("error_description", descriptions),
        t \in Member("Type", {"Invalid Request", "Other"}),
        m \in Member("Message", messages),
        r \in roots}

RootMembers ==
    {{}, {<<"observations", "data">>}, {<<"observations", Null>>}, {<<"nwsAlerts", "data">>}}

\* the payloads the mapper is applied to directly
MapperPayloads == PayloadsOf({"bad key", Null}, {"bad latitude", Null}, RootMembers)

\* one call with every shape of response
WideProducts == WeatherProductType
WideStatuses == {200, 204, 399, 400, 401, 500, 599, 600}
WideContentTypes ==
    {<<JsonType>>, <<JsonType, "charset=utf-8">>, <<"text/plain">>, <<>>}
WideBodies ==
    {Body("object", f) : f \in PayloadsOf({"bad key"}, {"bad latitude"}, RootMembers)}
        \cup {Body("array", EmptyMap), Body("text", EmptyMap), Body("binary", EmptyMap)}

\* concurrent calls: a success and an error response, both JSON
SmallProducts == {"observation"}
SmallStatuses == {200, 401}
SmallContentTypes == {<<JsonType>>}
SmallBodies == {Body("object", FromPairs({<<"observations", "data">>}))}

----------------------------------------------------------------------------
(* The state after construction *)

\* A call also records what it did on its way:
\*   made_session  it constructed the session (aiohttp.ClientSession())
\*   exchanges     how many times it awaited self._session.request(...)
\*   response      the response it obtained: "none", "open" (body not read to
\*                 its end, connection held), "consumed" (read to its end) or
\*                 "closed" (response.close())
\*   expired       where the call was waiting when request_timeout seconds had
\*                 passed since it entered the timeout block: "no" or that pc
Call(pc, op, product, sess, status, content_type, body, outcome) ==
    [pc |-> pc, op |-> op, product |-> product, sess |-> sess, status |-> status,
     content_type |-> content_type, body |-> body, outcome |-> outcome,
     made_session |-> FALSE, exchanges |-> 0, response |-> "none", expired |-> "no"]
Idle == Call("idle", "none", "none", NoSession, 0, <<>>, NoBody, NoOutcome)

\* the mutant: the constructor sets the ownership flag
InitOwning ==
    /\ session \in {NoSession, Supplied}
    /\ close_session = TRUE
    /\ created = 0
    /\ closed = {}
    /\ closeCalls = 0
    /\ sessionCloseCalls = 0
    /\ scope = "none"
    /\ task = [t \in Tasks |-> Idle]
    /\ json_data = NoValue
    /\ error = NoOutcome
    /\ lookup = "none"
    /\ root_key = "none"

\* AioHere.__init__, with or without a session
Init ==
    /\ session \in {NoSession, Supplied}
    /\ close_session = FALSE
    /\ created = 0
    /\ closed = {}
    /\ closeCalls = 0
    /\ sessionCloseCalls = 0
    /\ scope = "none"
    /\ task = [t \in Tasks |-> Idle]
    /\ json_data = NoValue
    /\ error = NoOutcome
    /\ lookup = "none"
    /\ root_key = "none"

client == <<session, close_session, created>>
lifecycle == <<closed, closeCalls, sessionCloseCalls, scope>>
mapper == <<json_data, error, lookup, root_key>>

----------------------------------------------------------------------------
(* request and weather_for_coordinates *)

\* the mutant: a session is created for every call
NeedsSessionAlways(s) == TRUE

\* if self._session is None
NeedsSession(s) == s = NoSession

\* json_data.get(self._product_node(product)) is not None
HasProduct(data, product) == Get(Members(data), _product_node(product)) # Null

\* weather_for_coordinates after request() returned json_data (None has no .get)
WeatherResult(data, product) ==
    IF ~IsDict(data) THEN Raise("AttributeError", Null)
    ELSE IF HasProduct(data, product) THEN Return(data)
    ELSE RaiseMapped(data)

\* How the call ends once request() ended with req: request() hands req to its
\* caller; weather_for_coordinates lets an exception through and checks a result
CallOutcome(op, product, req) ==
    IF op = "request" \/ req.kind = "raise" THEN req ELSE WeatherResult(req.value, product)

Finished(c, req) ==
    [c EXCEPT !.pc = "done", !.outcome = CallOutcome(c.op, c.product, req)]

\* A call runs from its start to its first await: the headers and, for
\* weather_for_coordinates, the params are built, the session is created if
\* there is none, and self._session.request(...) is awaited.  A closed aiohttp
\* session refuses the request at once with RuntimeError.
Start(t, op, product) ==
    /\ task[t].pc \in {"idle", "done"}
    /\ LET create == NeedsSession(session)
           s == IF create THEN created + 1 ELSE session
           c == [Call("exchange", op, product, s, 0, <<>>, NoBody, NoOutcome)
                    EXCEPT !.made_session = create, !.exchanges = 1]
       IN /\ session' = s
          /\ close_session' = (create \/ close_session)
          /\ created' = IF create THEN created + 1 ELSE created
          /\ task' = [task EXCEPT ![t] =
                        IF s \in closed
                        THEN Finished(c, Raise("RuntimeError", "Session is closed"))
                        ELSE c]
    /\ UNCHANGED <<lifecycle, mapper>>

\* the mutant: the timeout is reported as the generic error
ExchangeTimeoutGeneric(t) ==
    /\ task[t].pc = "exchange"
    /\ task' = [task EXCEPT ![t] =
                  Finished([@ EXCEPT !.expired = "exchange"],
                           Raise("HereError",
                                 "Error occurred while communicating with the here API."))]
    /\ UNCHANGED <<client, lifecycle, mapper>>

\* the mutant: a timeout throws the session away
ExchangeTimeoutDiscards(t) ==
    /\ task[t].pc = "exchange"
    /\ task' = [task EXCEPT ![t] =
                  Finished([@ EXCEPT !.expired = "exchange"],
                           Raise("HereTimeOutError",
                                 "Timeout occurred while connecting to the here API."))]
    /\ session' = NoSession
    /\ close_session' = FALSE
    /\ UNCHANGED <<created, lifecycle, mapper>>

\* asyncio.TimeoutError inside async_timeout.timeout(self.request_timeout)
ExchangeTimeout(t) ==
    /\ task[t].pc = "exchange"
    /\ task' = [task EXCEPT ![t] =
                  Finished([@ EXCEPT !.expired = "exchange"],
                           Raise("HereTimeOutError",
                                 "Timeout occurred while connecting to the here API."))]
    /\ UNCHANGED <<client, lifecycle, mapper>>

\* the mutant: a failed exchange is tried again
ExchangeErrorRetry(t) ==
    /\ task[t].pc = "exchange"
    /\ task' = [task EXCEPT ![t].exchanges = @ + 1]
    /\ UNCHANGED <<client, lifecycle, mapper>>

\* aiohttp.ClientError or socket.gaierror from self._session.request
ExchangeError(t) ==
    /\ task[t].pc = "exchange"
    /\ task' = [task EXCEPT ![t] =
                  Finished(@, Raise("HereError",
                                    "Error occurred while communicating with the here API."))]
    /\ UNCHANGED <<client, lifecycle, mapper>>

\* the mutant: the Content-Type is looked at before the 204 test
RespondContentFirst(t, status, content_type) ==
    /\ task[t].pc = "exchange"
    /\ LET c == [task[t] EXCEPT !.status = status, !.content_type = content_type,
                                 !.response = "open"]
       IN task' = [task EXCEPT ![t] =
                     IF IsErrorStatus(status) THEN [c EXCEPT !.pc = "read"]
                     ELSE IF ContainsJson(content_type) THEN [c EXCEPT !.pc = "json"]
                     ELSE IF status = 204
                     THEN Finished([c EXCEPT !.response = "closed"], Return(PyNone))
                     ELSE [c EXCEPT !.pc = "text"]]
    /\ UNCHANGED <<client, lifecycle, mapper>>

\* the mutant: 204 returns without response.close()
RespondKeepOpen(t, status, content_type) ==
    /\ task[t].pc = "exchange"
    /\ LET c == [task[t] EXCEPT !.status = status, !.content_type = content_type,
                                 !.response = "open"]
       IN task' = [task EXCEPT ![t] =
                     IF IsErrorStatus(status) THEN [c EXCEPT !.pc = "read"]
                     ELSE IF status = 204 THEN Finished(c, Return(PyNone))
                     ELSE IF ContainsJson(content_type) THEN [c EXCEPT !.pc = "json"]
                     ELSE [c EXCEPT !.pc = "text"]]
    /\ UNCHANGED <<client, lifecycle, mapper>>

\* The response (status line and headers) arrives: the code runs to its next
\* await, or to the return for 204.
Respond(t, status, content_type) ==
    /\ task[t].pc = "exchange"
    /\ LET c == [task[t] EXCEPT !.status = status, !.content_type = content_type,
                                 !.response = "open"]
       IN task' = [task EXCEPT ![t] =
                     IF IsErrorStatus(status) THEN [c EXCEPT !.pc = "read"]
                     ELSE IF status = 204
                     THEN Finished([c EXCEPT !.response = "closed"], Return(PyNone))
                     ELSE IF ContainsJson(content_type) THEN [c EXCEPT !.pc = "json"]
                     ELSE [c EXCEPT !.pc = "text"]]
    /\ UNCHANGED <<client, lifecycle, mapper>>

\* await response.read() returned contents for a 4xx / 5xx response, and
\* response.close() follows; the body is kept by the response, so
\* response.json() decodes it without waiting
ReadDone(t, contents) ==
    /\ task[t].pc = "read"
    /\ LET c == [task[t] EXCEPT !.body = contents, !.response = "closed"]
       IN task' = [task EXCEPT ![t] =
                     IF IsExactlyJson(c.content_type)
                     THEN IF JsonDecodable(contents)
                          THEN Finished(c, RaiseMapped(JsonLoads(contents)))
                          ELSE IF Utf8Decodable(contents)
                          THEN Finished(c, Raise("JSONDecodeError", Null))
                          ELSE Finished(c, Raise("UnicodeDecodeError", Null))
                     ELSE IF Utf8Decodable(contents)
                          THEN Finished(c, RaiseStatus(c.status, contents))
                          ELSE Finished(c, Raise("UnicodeDecodeError", Null))]
    /\ UNCHANGED <<client, lifecycle, mapper>>

\* await response.json() for a 2xx response whose Content-Type contains application/json
JsonDone(t, contents) ==
    /\ task[t].pc = "json"
    /\ LET c == [task[t] EXCEPT !.body = contents, !.response = "consumed"]
       IN task' = [task EXCEPT ![t] =
                     IF JsonDecodable(contents) THEN Finished(c, Return(JsonLoads(contents)))
                     ELSE IF Utf8Decodable(contents)
                     THEN Finished(c, Raise("JSONDecodeError", Null))
                     ELSE Finished(c, Raise("UnicodeDecodeError", Null))]
    /\ UNCHANGED <<client, lifecycle, mapper>>

\* await response.text() for any other 2xx response.  aiohttp decodes with the
\* charset it detects: bytes that are not UTF-8 decode under that charset
\* (detected = TRUE) or raise UnicodeDecodeError.
TextDone(t, contents, detected) ==
    /\ task[t].pc = "text"
    /\ LET c == [task[t] EXCEPT !.body = contents, !.response = "consumed"]
       IN task' = [task EXCEPT ![t] =
                     IF Utf8Decodable(contents) \/ detected
                     THEN Finished(c, Return(MessageDict(contents)))
                     ELSE Finished(c, Raise("UnicodeDecodeError", Null))]
    /\ UNCHANGED <<client, lifecycle, mapper>>

\* What an exception raised inside response.read() (which json() and text()
\* await for a body not yet read) leaves of the response: aiohttp's read()
\* closes the response before it lets any exception through
Interrupted(c) == [c EXCEPT !.response = IF c.response = "open" THEN "closed" ELSE @]

\* The connection fails while the body is read: nothing in request() catches
\* the aiohttp.ClientPayloadError
BodyError(t) ==
    /\ task[t].pc \in {"read", "json", "text"}
    /\ task' = [task EXCEPT ![t] = Finished(Interrupted(@), Raise("ClientPayloadError", Null))]
    /\ UNCHANGED <<client, lifecycle, mapper>>

\* The caller cancels the task at the await it is suspended in
Cancel(t) ==
    /\ task[t].pc \in {"exchange", "read", "json", "text"}
    /\ task' = [task EXCEPT ![t] = Finished(Interrupted(@), Raise("CancelledError", Null))]
    /\ UNCHANGED <<client, lifecycle, mapper>>

\* request_timeout seconds pass while the body is awaited: the timeout block
\* (lines 89-97) was left when the response arrived, so nothing happens to the call
DeadlinePasses(t) ==
    /\ task[t].pc \in {"read", "json", "text"}
    /\ task[t].expired = "no"
    /\ task' = [task EXCEPT ![t].expired = task[t].pc]
    /\ UNCHANGED <<client, lifecycle, mapper>>

----------------------------------------------------------------------------
(* close and the async context manager *)

\* the mutant: close() does not look at the ownership flag
ShouldCloseAny(s, flag) == s # NoSession

\* the mutant: close() never closes
ShouldCloseNever(s, flag) == FALSE

\* if self._session and self._close_session
ShouldClose(s, flag) == s # NoSession /\ flag

\* AioHere.close: await self._session.close() closes the session; aiohttp's
\* close() of a closed session changes nothing
CloseBody ==
    /\ closeCalls' = closeCalls + 1
    /\ IF ShouldClose(session, close_session)
       THEN /\ sessionCloseCalls' = sessionCloseCalls + 1
            /\ closed' = closed \cup {session}
       ELSE UNCHANGED <<sessionCloseCalls, closed>>

\* the mutant: close() forgets the session it closed
CloseAndForget ==
    /\ closeCalls < MaxCloses
    /\ CloseBody
    /\ session' = NoSession
    /\ close_session' = FALSE
    /\ UNCHANGED <<created, scope, task, mapper>>

\* a direct call of close()
Close ==
    /\ closeCalls < MaxCloses
    /\ CloseBody
    /\ UNCHANGED <<client, scope, task, mapper>>

\* AioHere.__aenter__
AEnter ==
    /\ scope = "none"
    /\ scope' = "inside"
    /\ UNCHANGED <<client, closed, closeCalls, sessionCloseCalls, task, mapper>>

\* the mutant: the session is released only when the block ended normally
AExitUnlessRaised(exc) ==
    /\ scope = "inside"
    /\ scope' = IF exc THEN "raised" ELSE "exited"
    /\ IF exc THEN UNCHANGED <<closed, closeCalls, sessionCloseCalls>> ELSE CloseBody
    /\ UNCHANGED <<client, task, mapper>>

\* AioHere.__aexit__: the block ended normally (exc = FALSE) or by an exception
AExit(exc) ==
    /\ scope = "inside"
    /\ scope' = IF exc THEN "raised" ELSE "exited"
    /\ CloseBody
    /\ UNCHANGED <<client, task, mapper>>

----------------------------------------------------------------------------
(* Specifications *)

\* The client under concurrent calls, close() and the async-with block
Next ==
    \/ \E t \in Tasks : Start(t, "request", "none")
    \/ \E t \in Tasks, product \in SmallProducts : Start(t, "weather_for_coordinates", product)
    \/ \E t \in Tasks : ExchangeTimeout(t)
    \/ \E t \in Tasks : ExchangeError(t)
    \/ \E t \in Tasks, status \in SmallStatuses, content_type \in SmallContentTypes :
          Respond(t, status, content_type)
    \/ \E t \in Tasks, contents \in SmallBodies : ReadDone(t, contents)
    \/ \E t \in Tasks, contents \in SmallBodies : JsonDone(t, contents)
    \/ \E t \in Tasks : Cancel(t)
    \/ Close
    \/ AEnter
    \/ \E exc \in BOOLEAN : AExit(exc)

Spec == Init /\ [][Next]_vars

\* One call at a time, with every shape of response
CallNext ==
    \/ Start(1, "request", "none")
    \/ \E product \in WideProducts : Start(1, "weather_for_coordinates", product)
    \/ ExchangeTimeout(1)
    \/ ExchangeError(1)
    \/ \E status \in WideStatuses, content_type \in WideContentTypes :
          Respond(1, status, content_type)
    \/ \E contents \in WideBodies : ReadDone(1, contents)
    \/ \E contents \in WideBodies : JsonDone(1, contents)
    \/ \E contents \in WideBodies, detected \in BOOLEAN : TextDone(1, contents, detected)
    \/ BodyError(1)
    \/ Cancel(1)
    \/ DeadlinePasses(1)

CallSpec == Init /\ [][CallNext]_vars

\* The error mapper applied to a payload, the product lookup to a product
MapperInit ==
    /\ Init
    /\ session = NoSession

ApplyMapper(data) ==
    /\ error = NoOutcome
    /\ json_data' = data
    /\ error' = _get_error_from_response(data)
    /\ UNCHANGED <<client, lifecycle, task, lookup, root_key>>

ApplyProductNode(product) ==
    /\ root_key = "none"
    /\ lookup' = product
    /\ root_key' = _product_node(product)
    /\ UNCHANGED <<client, lifecycle, task, json_data, error>>

MapperNext ==
    \/ \E f \in MapperPayloads : ApplyMapper(Value("dict", f))
    \/ \E product \in WeatherProductType : ApplyProductNode(product)

MapperSpec == MapperInit /\ [][MapperNext]_vars

----------------------------------------------------------------------------
(* Claims *)

Done(c) == c.pc = "done"
Raised(c, exc) == Done(c) /\ c.outcome.kind = "raise" /\ c.outcome.exc = exc

\* C1: a client constructed without a session creates at most one session,
\* whatever the interleaving of its calls, and every call that has started
\* made its exchange on that session, which is the client's session.
C1_OneSession ==
    session # Supplied =>
        /\ created <= 1
        /\ \A t \in Tasks : task[t].pc # "idle" => task[t].sess = session /\ session # NoSession

\* two calls are in their exchange at once, on the one session the client created
C1_Witness ==
    /\ created = 1
    /\ \E t, u \in Tasks :
          /\ t # u
          /\ task[t].pc = "exchange" /\ task[u].pc = "exchange"
          /\ task[t].sess = task[u].sess

\* C2: the session supplied to the constructor is never closed by the client.
C2_SuppliedStaysOpen == Supplied \notin closed

\* with a supplied session: close() was called directly, the block was left by
\* an exception, one call was cancelled and another timed out
C2_Witness ==
    /\ session = Supplied
    /\ scope = "raised"
    /\ closeCalls >= 2
    /\ \E t, u \in Tasks : Raised(task[t], "CancelledError") /\ Raised(task[u], "HereTimeOutError")

\* C3 as claimed: on a client that created its session, the session's close
\* operation is invoked at most once over all close() calls.
C3_SessionCloseInvokedOnce == close_session => sessionCloseCalls <= 1

\* C3 as amended: every close() of a client that created its session invokes
\* the session's close operation, after which the session is closed; a session
\* once closed stays closed, so a later close() changes nothing.
C3_CloseIdempotentInEffect ==
    [][/\ (closeCalls' = closeCalls + 1 /\ close_session) =>
            /\ sessionCloseCalls' = sessionCloseCalls + 1
            /\ session \in closed'
            /\ (session \in closed => closed' = closed)
       /\ closed \subseteq closed']_vars

\* the created session was closed and close() ran again on it
C3_Witness ==
    /\ close_session
    /\ session \in closed
    /\ closeCalls >= 2
    /\ sessionCloseCalls = closeCalls

\* C4: leaving the async-with block, normally or by an exception, runs close(),
\* and a session the client created is closed when the exit has completed.
C4_ExitCloses ==
    [][(scope = "inside" /\ scope' # "inside") =>
            /\ closeCalls' = closeCalls + 1
            /\ (close_session /\ session # NoSession => session \in closed')]_vars

\* the block was left by an exception after a request in it failed, and the
\* exit, the only close() so far, closed the created session
C4_Witness ==
    /\ scope = "raised"
    /\ closeCalls = 1
    /\ close_session
    /\ session \in closed
    /\ \E t \in Tasks : Raised(task[t], "HereError")

\* C5 as claimed: a call that fails (cancellation by the caller aside) fails
\* with one of the four library errors.
C5_OnlyLibraryErrors ==
    \A t \in Tasks :
        (Done(task[t]) /\ task[t].outcome.kind = "raise" /\ task[t].outcome.exc # "CancelledError")
            => task[t].outcome.exc \in LibraryErrors

\* the response was received in full: 204 is returned without its body
Received(c) == Done(c) /\ c.status # 0 /\ (c.status = 204 \/ c.body # NoBody)

\* C6 as claimed: a call whose exchange completed with a 2xx status returns.
C6_SuccessReturns ==
    \A t \in Tasks :
        (Received(task[t]) /\ task[t].status \in 200..299) => task[t].outcome.kind = "return"

\* the mapping request() returned for a 2xx response with a body
DecodedMapping(c) ==
    IF ContainsJson(c.content_type) THEN JsonLoads(c.body) ELSE MessageDict(c.body)
ReturnedMapping(c) ==
    /\ Received(c)
    /\ c.status \in 200..299 /\ c.status # 204
    /\ IF ContainsJson(c.content_type) THEN c.body.form = "object" ELSE Utf8Decodable(c.body)

\* C7 as claimed: weather_for_coordinates returns the mapping unchanged when it
\* has the product's root key, whatever is stored under it, and otherwise
\* raises the error the mapper returns for the mapping.
C7_RootKeyDecides ==
    \A t \in Tasks :
        (task[t].op = "weather_for_coordinates" /\ ReturnedMapping(task[t])) =>
            LET data == DecodedMapping(task[t])
                e == _get_error_from_response(data)
            IN IF _product_node(task[t].product) \in DOMAIN Members(data)
               THEN task[t].outcome = Return(data)
               ELSE /\ e.kind = "return"
                    /\ task[t].outcome = Raise(e.exc, e.message)
                    /\ ({"error", "Type"} \cap DOMAIN Members(data) = {}
                            => task[t].outcome = Raise("HereError", Get(Members(data), "Message")))

\* C8 as claimed: for a status in [400,600), a JSON object sent as exactly
\* application/json raises the error the mapper returns for it, and a body of
\* any other Content-Type raises HereError(status, {"message": text}).
C8_ErrorStatusRaises ==
    \A t \in Tasks :
        (Received(task[t]) /\ task[t].status >= 400 /\ task[t].status < 600) =>
            IF IsExactlyJson(task[t].content_type)
            THEN task[t].body.form = "object" =>
                    LET e == _get_error_from_response(JsonLoads(task[t].body))
                    IN e.kind = "return" /\ task[t].outcome = Raise(e.exc, e.message)
            ELSE Utf8Decodable(task[t].body) =>
                    task[t].outcome = RaiseStatus(task[t].status, task[t].body)

\* C9 as claimed: the mapper returns one of the four errors for every payload
\* and never raises; without error and Type it returns the generic error.
C9_MapperTotal ==
    error # NoOutcome =>
        /\ error.kind = "return"
        /\ error.exc \in LibraryErrors
        /\ ({"error", "Type"} \cap DOMAIN Members(json_data) = {} => error.exc = "HereError")

\* the dispatch the claim describes, every field read as a missing one reads
Dispatch(m) ==
    IF Get(m, "error") = "Unauthorized"
    THEN ErrorObject("HereUnauthorizedError", Get(m, "error_description"))
    ELSE IF Get(m, "Type") = "Invalid Request"
    THEN ErrorObject("HereInvalidRequestError", Get(m, "Message"))
    ELSE ErrorObject("HereError", Get(m, "Message"))

\* C10 as claimed: error = "Unauthorized" maps to the unauthorized error with
\* error_description, before Type = "Invalid Request" maps to the
\* invalid-request error with Message, before the generic error with Message.
C10_DispatchOrder == error # NoOutcome => error = Dispatch(Members(json_data))

\* C11 as claimed: a call that is still waiting when its deadline expires ends
\* at once with the timeout error, wherever it waits.
C11_DeadlineEndsCall ==
    \A t \in Tasks : task[t].expired # "no" => Raised(task[t], "HereTimeOutError")

\* C11 as amended: a call waiting in the exchange when the deadline expires
\* ends with the timeout error; a call reading or decoding the body when the
\* time runs out is not ended by it and never ends with the timeout error.
C11_DeadlineBoundsExchange ==
    \A t \in Tasks :
        /\ task[t].expired = "exchange" => Raised(task[t], "HereTimeOutError")
        /\ Raised(task[t], "HereTimeOutError") => task[t].expired = "exchange"
        /\ task[t].expired \in {"read", "json", "text"} =>
              task[t].outcome.exc # "HereTimeOutError"

\* the time ran out while the body of a 2xx response was read, and the call
\* went on to return it
C11_Witness ==
    \E t \in Tasks :
        /\ task[t].expired \in {"json", "text"}
        /\ Done(task[t])
        /\ task[t].outcome.kind = "return"

\* C12: request() returns None for a 204 response whatever its Content-Type,
\* at once and without reading the body.
C12_NoContent ==
    \A t \in Tasks :
        (task[t].op = "request" /\ task[t].status = 204) =>
            /\ Done(task[t])
            /\ task[t].outcome = Return(PyNone)
            /\ task[t].body = NoBody

\* a 204 response declared as JSON was answered with None
C12_Witness ==
    \E t \in Tasks :
        /\ task[t].op = "request"
        /\ task[t].status = 204
        /\ task[t].content_type = <<JsonType>>
        /\ task[t].outcome = Return(PyNone)

\* the root key the product table gives each product
RootKeyTable ==
    [observation |-> "observations", forecast_7days |-> "forecasts",
     forecast_7days_simple |-> "dailyForecasts", forecast_hourly |-> "hourlyForecasts",
     forecast_astronomy |-> "astronomy", alerts |-> "alerts", nws_alerts |-> "nwsAlerts"]

\* C13: the lookup gives every product its root key of the table, a non-empty
\* string, and gives no other product the same key.
C13_ProductNodeOneToOne ==
    root_key # "none" =>
        /\ lookup \in WeatherProductType
        /\ root_key = RootKeyTable[lookup]
        /\ root_key # ""
        /\ \A other \in WeatherProductType \ {lookup} : _product_node(other) # root_key

\* the last member, reached by the final else, was looked up
C13_Witness == lookup = "nws_alerts" /\ root_key = "nwsAlerts"

\* C14 as claimed: after a call that created the session ended with the
\* timeout error, the client has no open session of its own.
C14_NoOpenSessionAfterTimeout ==
    \A t \in Tasks :
        (Raised(task[t], "HereTimeOutError") /\ task[t].made_session) =>
            ~(session # NoSession /\ close_session /\ session \notin closed)

\* C14 as amended: after such a call the session it created is still the
\* client's session and owned by it; the timeout does not close it, so it is
\* open unless close() has been invoked on it.
C14_SessionKeptAfterTimeout ==
    \A t \in Tasks :
        (Raised(task[t], "HereTimeOutError") /\ task[t].made_session) =>
            /\ session = task[t].sess
            /\ session \in 1..created
            /\ close_session
            /\ (session \in closed => sessionCloseCalls >= 1)

\* the first call timed out, close() was never called, and the session it
\* created is open
C14_Witness ==
    \E t \in Tasks :
        /\ Raised(task[t], "HereTimeOutError")
        /\ task[t].made_session
        /\ closeCalls = 0
        /\ session = task[t].sess
        /\ session \notin closed

\* C15: the ownership flag is true only while the client's session is one the
\* client created, never for a supplied session; it turns true only in the
\* step that creates the session, and once true it stays true.
C15_FlagSetOnceByCreation ==
    [][/\ close_session => (session \in 1..created /\ session # Supplied)
       /\ close_session' => (session' \in 1..created' /\ session' # Supplied)
       /\ close_session => close_session'
       /\ (~close_session /\ close_session') =>
             (session = NoSession /\ created' = created + 1 /\ session' = created')]_vars

\* the flag is still set after the created session was closed and another
\* call, which created nothing, was started
C15_Witness ==
    /\ close_session
    /\ created = 1
    /\ session \in closed
    /\ \E t \in Tasks : task[t].pc # "idle" /\ ~task[t].made_session

C17_OneExchange ==
    \A t \in Tasks : task[t].op = "weather_for_coordinates" => task[t].exchanges = 1

\* a call failed the root-key check of a 200 response after its one exchange
C17_Witness ==
    \E t \in Tasks :
        /\ task[t].op = "weather_for_coordinates"
        /\ task[t].status = 200
        /\ task[t].body.form = "object"
        /\ Raised(task[t], "HereError")
        /\ task[t].exchanges = 1

\* C18: a session handle once set is never replaced or cleared and no further
\* session is created, close() included; a call started when the session is
\* closed creates nothing and awaits its request on that closed session.
C18_HandleNeverReplaced ==
    [][/\ session # NoSession => (session' = session /\ created' = created)
       /\ \A t \in Tasks :
             (task[t].pc \in {"idle", "done"} /\ task'[t] # task[t] /\ session \in closed) =>
                 /\ task'[t].sess = session
                 /\ task'[t].exchanges = 1
                 /\ ~task'[t].made_session]_vars

\* after close() closed the created session, a call was made on it, which the
\* closed session refused
C18_Witness ==
    /\ close_session
    /\ created = 1
    /\ session \in closed
    /\ \E t \in Tasks : Raised(task[t], "RuntimeError") /\ task[t].sess = session

====
